---- MODULE Spec2Model ----
(***************************************************************************)
(* Model of src/src/main.py: get_last_names (author-field formatting) and  *)
(* md_from_csv (CSV table -> Markdown file grouped by category).           *)
(*                                                                         *)
(* A Python str is a sequence of one-character strings, so that split,     *)
(* strip, "in" and the lexicographic order are computed character by       *)
(* character.  The data frame is the table as parsed: every cell is a      *)
(* non-empty, non-numeric string (CSV parsing itself is pandas' work).     *)
(***************************************************************************)
EXTENDS Integers, Sequences, FiniteSets, TLC

VARIABLES
    authors,      \* get_last_names: the argument
    npc,          \* get_last_names: "ready" before the call, "called" after
    nres,         \* get_last_names: outcome of the call (return value or exception)
    source,       \* the CSV file at csv_path: readable?, columns, rows
    dest,         \* the file at md_path: exists?, lines
    pc,           \* md_from_csv: position in the function
    df,           \* md_from_csv: the data frame read from the CSV
    categories,   \* md_from_csv: sorted unique categories
    ci,           \* md_from_csv: index of the current category in categories
    category_df,  \* md_from_csv: rows of the current category, with "Last Names"
    sorted_df,    \* md_from_csv: category_df after sort_values
    ri,           \* md_from_csv: index of the next row of sorted_df to write
    err           \* md_from_csv: the exception that left the function, or "none"

vars == <<authors, npc, nres, source, dest, pc, df, categories, ci, category_df,
          sorted_df, ri, err>>

-----------------------------------------------------------------------------
(* Bounds *)

MaxPieces == 5
MaxRows == 3

-----------------------------------------------------------------------------
(* Python str primitives *)

Min(S) == CHOOSE x \in S : \A y \in S : x <= y
Max(S) == CHOOSE x \in S : \A y \in S : x >= y

\* ord(c) for the characters that occur in the model
Ord(c) ==
    CASE c = " " -> 32 [] c = "&" -> 38 [] c = "," -> 44 [] c = "-" -> 45
      [] c = "." -> 46 [] c = "0" -> 48 [] c = "1" -> 49 [] c = "7" -> 55
      [] c = "9" -> 57 [] c = ":" -> 58 [] c = "A" -> 65 [] c = "B" -> 66
      [] c = "C" -> 67 [] c = "I" -> 73 [] c = "J" -> 74 [] c = "L" -> 76
      [] c = "N" -> 78 [] c = "O" -> 79 [] c = "P" -> 80 [] c = "R" -> 82
      [] c = "S" -> 83 [] c = "T" -> 84 [] c = "U" -> 85 [] c = "a" -> 97
      [] c = "d" -> 100 [] c = "e" -> 101 [] c = "l" -> 108 [] c = "n" -> 110
      [] c = "o" -> 111 [] c = "r" -> 114 [] c = "t" -> 116

\* a < b on Python strings: code-point lexicographic order
RECURSIVE StrLess(_, _)
StrLess(a, b) ==
    IF b = <<>> THEN FALSE
    ELSE IF a = <<>> THEN TRUE
    ELSE IF Ord(Head(a)) # Ord(Head(b)) THEN Ord(Head(a)) < Ord(Head(b))
    ELSE StrLess(Tail(a), Tail(b))

IsSpace(c) == c \in {" ", "\t", "\n"}

\* positions at which sub occurs in s
Occurrences(s, sub) ==
    {i \in 1..(Len(s) - Len(sub) + 1) : SubSeq(s, i, i + Len(sub) - 1) = sub}

\* sub in s
Contains(s, sub) == Occurrences(s, sub) # {}

\* s.split(sep): left to right, non-overlapping, empty strings kept
RECURSIVE Split(_, _)
Split(s, sep) ==
    IF Contains(s, sep)
    THEN LET i == Min(Occurrences(s, sep))
         IN  <<SubSeq(s, 1, i - 1)>> \o Split(SubSeq(s, i + Len(sep), Len(s)), sep)
    ELSE <<s>>

\* s.strip()
Strip(s) ==
    LET keep == {i \in 1..Len(s) : ~IsSpace(s[i])}
    IN  IF keep = {} THEN <<>> ELSE SubSeq(s, Min(keep), Max(keep))

\* s.split(): split on runs of whitespace, no empty strings
RECURSIVE SplitWs(_)
SplitWs(s) ==
    LET keep == {i \in 1..Len(s) : ~IsSpace(s[i])}
    IN  IF keep = {} THEN <<>>
        ELSE LET b == Min(keep)
                 sp == {i \in b..Len(s) : IsSpace(s[i])}
                 e == IF sp = {} THEN Len(s) + 1 ELSE Min(sp)
             IN  <<SubSeq(s, b, e - 1)>> \o SplitWs(SubSeq(s, e, Len(s)))

\* sep.join(strs)
RECURSIVE Join(_, _)
Join(sep, strs) ==
    IF strs = <<>> THEN <<>>
    ELSE IF Len(strs) = 1 THEN strs[1]
    ELSE strs[1] \o sep \o Join(sep, Tail(strs))

RECURSIVE Flatten(_)
Flatten(ss) == IF ss = <<>> THEN <<>> ELSE Head(ss) \o Flatten(Tail(ss))

\* the elements of seq at the positions in S, in order
RECURSIVE Select(_, _)
Select(seq, S) ==
    IF S = {} THEN <<>>
    ELSE LET m == Min(S) IN <<seq[m]>> \o Select(seq, S \ {m})

-----------------------------------------------------------------------------
(* String literals of the source *)

AND_SEP == <<" ", "a", "n", "d", " ">>
COMMA == <<",">>
ET_AL == <<"e", "t", " ", "a", "l", ".">>
JR == <<"J", "r", ".">>
COMMA_SPACE == <<",", " ">>
AMPERSAND == <<" ", "&", " ">>

-----------------------------------------------------------------------------
(* get_last_names *)

Return(v) == [kind |-> "return", value |-> v]
Raise(e) == [kind |-> "raise", error |-> e]

\* author_list: split on " and ", then on ",", drop empty strings, strip the rest
AuthorList(a) ==
    LET parts == Split(a, AND_SEP)
        pieces == Flatten([i \in 1..Len(parts) |-> Split(parts[i], COMMA)])
        nonempty == Select(pieces, {i \in 1..Len(pieces) : pieces[i] # <<>>})
    IN  [i \in 1..Len(nonempty) |-> Strip(nonempty[i])]

\* the "Jr." test with a case-insensitive comparison
IsJrAnyCase(tok) == tok \in {JR, <<"J", "R", ".">>}

\* parts[-1] == "Jr."
IsJr(tok) == tok = JR

\* one iteration of the loop over author_list: the names it appends, or the
\* exception it raises (parts[-2] of a one-element list is an IndexError)
FormatAuthor(author) ==
    IF Contains(author, ET_AL)
    THEN [exc |-> "none", out |-> <<author>>]
    ELSE LET parts == SplitWs(author)
         IN  IF parts # <<>>
             THEN IF IsJr(parts[Len(parts)])
                  THEN IF Len(parts) >= 2
                       THEN [exc |-> "none", out |-> <<parts[Len(parts) - 1]>>]
                       ELSE [exc |-> "IndexError", out |-> <<>>]
                  ELSE [exc |-> "none", out |-> <<parts[Len(parts)]>>]
             ELSE [exc |-> "none", out |-> <<>>]

\* the loop over author_list: formatted_authors, or the first exception raised
RECURSIVE FormatAuthors(_)
FormatAuthors(author_list) ==
    IF author_list = <<>> THEN [exc |-> "none", out |-> <<>>]
    ELSE LET first == FormatAuthor(Head(author_list))
         IN  IF first.exc # "none" THEN first
             ELSE LET rest == FormatAuthors(Tail(author_list))
                  IN  IF rest.exc # "none" THEN rest
                      ELSE [exc |-> "none", out |-> first.out \o rest.out]

\* the whole function; formatted_authors[0] of an empty list is an IndexError
get_last_names(a) ==
    LET fa == FormatAuthors(AuthorList(a))
        n == Len(fa.out)
    IN  IF fa.exc # "none" THEN Raise(fa.exc)
        ELSE IF n > 1
        THEN Return(Join(COMMA_SPACE, SubSeq(fa.out, 1, n - 1)) \o AMPERSAND \o fa.out[n])
        ELSE IF n = 1 THEN Return(fa.out[1])
        ELSE Raise("IndexError")

-----------------------------------------------------------------------------
(* Author fields given to get_last_names: up to MaxPieces pieces *)

Pieces ==
    {<<"A">>, JR, <<"J", "R", ".">>, <<" ">>, COMMA, AND_SEP, ET_AL}

AuthorFields ==
    {Flatten(ps) : ps \in UNION {[1..n -> Pieces] : n \in 0..MaxPieces}}

-----------------------------------------------------------------------------
(* get_last_names as a state machine: one call on one author field *)

NoResult == [kind |-> "none"]

NamesIdle == authors = <<>> /\ npc = "idle" /\ nres = NoResult

CallGetLastNames ==
    /\ npc = "ready"
    /\ nres' = get_last_names(authors)
    /\ npc' = "called"
    /\ UNCHANGED <<authors, source, dest, pc, df, categories, ci, category_df,
                   sorted_df, ri, err>>

-----------------------------------------------------------------------------
(* md_from_csv: literals and rendering *)

RequiredColumns == {"Category", "Author(s)", "Title", "ISBN-10", "ISBN-13"}

PRE_ISBN == <<"P", "r", "e", "-", "I", "S", "B", "N">>
NO_ISBN == <<"N", "o", " ", "I", "S", "B", "N">>
LCCN == <<"L", "C", "C", "N">>
LCCN_PREFIX == <<"L", "C", "C", "N", ":", " ">>

\* the ISBN cell, with the default branch printing the ISBN-10 field
IsbnColumnTen(isbn_type, isbn) ==
    IF isbn_type = PRE_ISBN THEN PRE_ISBN
    ELSE IF isbn_type = NO_ISBN THEN NO_ISBN
    ELSE IF isbn_type = LCCN THEN LCCN_PREFIX \o isbn
    ELSE isbn_type

\* the ISBN cell of a row: isbn_type is row["ISBN-10"], isbn is row["ISBN-13"]
IsbnColumn(isbn_type, isbn) ==
    IF isbn_type = PRE_ISBN THEN PRE_ISBN
    ELSE IF isbn_type = NO_ISBN THEN NO_ISBN
    ELSE IF isbn_type = LCCN THEN LCCN_PREFIX \o isbn
    ELSE isbn

\* f"## {category}\n\n"
HeadingLine(category) == [kind |-> "heading", text |-> category]
\* "| Author | Title | ISBN |\n"
HeaderLine == [kind |-> "header"]
\* "| ------ | ----- | ---- |\n"
SeparatorLine == [kind |-> "separator"]
\* f"| {last_names} | *{title}* | ... |\n"; idx is the index label of the row
RowLine(idx, last_names, title, isbn_cell) ==
    [kind |-> "row", idx |-> idx, author |-> last_names,
     title |-> <<"*">> \o title \o <<"*">>, isbn |-> isbn_cell]
\* "\n"
BlankLine == [kind |-> "blank"]

-----------------------------------------------------------------------------
(* md_from_csv: grouping and sorting *)

\* Series.unique(): the distinct values in order of first appearance
RECURSIVE Unique(_)
Unique(seq) ==
    IF seq = <<>> THEN <<>>
    ELSE LET init == Unique(SubSeq(seq, 1, Len(seq) - 1))
             last == seq[Len(seq)]
         IN  IF \E i \in 1..Len(init) : init[i] = last THEN init
             ELSE Append(init, last)

\* x placed in seq before the first of the positions in greater, or at the end
InsertBefore(seq, x, greater) ==
    LET k == IF greater = {} THEN Len(seq) + 1 ELSE Min(greater)
    IN  SubSeq(seq, 1, k - 1) \o <<x>> \o SubSeq(seq, k, Len(seq))

\* sorted(list): ascending, stable
RECURSIVE Sorted(_)
Sorted(seq) ==
    IF seq = <<>> THEN <<>>
    ELSE LET init == Sorted(SubSeq(seq, 1, Len(seq) - 1))
             x == seq[Len(seq)]
         IN  InsertBefore(init, x, {i \in 1..Len(init) : StrLess(x, init[i])})

\* the unique categories left in order of first appearance
SortedCategoriesUnsorted(rows) == Unique([i \in 1..Len(rows) |-> rows[i]["Category"]])

\* sorted(df["Category"].unique())
SortedCategories(rows) == Sorted(Unique([i \in 1..Len(rows) |-> rows[i]["Category"]]))

\* the data frame left unfiltered
CategoryRowsAll(rows, category) == [i \in 1..Len(rows) |-> [idx |-> i, row |-> rows[i]]]

\* df[df["Category"] == category], each row with its index label
CategoryRows(rows, category) ==
    Select([i \in 1..Len(rows) |-> [idx |-> i, row |-> rows[i]]],
           {i \in 1..Len(rows) : rows[i]["Category"] = category})

\* the two sort keys in the opposite priority
KeyLessTitleFirst(a, b) ==
    \/ StrLess(a.row["Title"], b.row["Title"])
    \/ a.row["Title"] = b.row["Title"] /\ StrLess(a.last_names, b.last_names)

\* the order of sort_values(by=["Last Names", "Title"])
KeyLess(a, b) ==
    \/ StrLess(a.last_names, b.last_names)
    \/ a.last_names = b.last_names /\ StrLess(a.row["Title"], b.row["Title"])

\* DataFrame.sort_values(by=["Last Names", "Title"]): ascending, stable
RECURSIVE SortValues(_)
SortValues(rows) ==
    IF rows = <<>> THEN <<>>
    ELSE LET init == SortValues(SubSeq(rows, 1, Len(rows) - 1))
             x == rows[Len(rows)]
         IN  InsertBefore(init, x, {i \in 1..Len(init) : KeyLess(x, init[i])})

-----------------------------------------------------------------------------
(* md_from_csv: inputs *)

Record(category, author, title, isbn10, isbn13) ==
    [c \in RequiredColumns |->
        CASE c = "Category" -> category
          [] c = "Author(s)" -> author
          [] c = "Title" -> title
          [] c = "ISBN-10" -> isbn10
          [] c = "ISBN-13" -> isbn13]

CategoryValues == {<<"A">>, <<"B">>}
\* last names "A", "B", and a field with no name in it
AuthorValues == {<<"B", " ", "A">>, <<"B">>, <<",">>}
TitleValues == {<<"T">>, <<"T", "U">>}
Isbn10Values == {PRE_ISBN, NO_ISBN, LCCN, <<"0", "-", "1">>}
Isbn13Values == {<<"9", "7">>, LCCN}

\* records that differ in category, author and title
GroupRecords ==
    {Record(c, a, t, <<"0", "-", "1">>, <<"9", "7">>) :
        c \in CategoryValues, a \in AuthorValues, t \in TitleValues}

\* records that differ in the two ISBN fields
IsbnRecords ==
    {Record(<<"A">>, <<"B">>, <<"T">>, i, j) : i \in Isbn10Values, j \in Isbn13Values}

SeqsUpTo(S, n) == UNION {[1..k -> S] : k \in 0..n}

Tables == SeqsUpTo(GroupRecords, MaxRows) \cup SeqsUpTo(IsbnRecords, MaxRows)

ColumnChoices == {RequiredColumns} \cup {RequiredColumns \ {c} : c \in RequiredColumns}

Unreadable == [readable |-> FALSE, columns |-> {}, rows |-> <<>>]

Sources ==
    {Unreadable} \cup
    {[readable |-> TRUE, columns |-> cols,
      rows |-> [i \in 1..Len(t) |-> [c \in cols |-> t[i][c]]]] :
        cols \in ColumnChoices, t \in Tables}

Absent == [exists |-> FALSE, lines |-> <<>>]
OldFile == [exists |-> TRUE, lines |-> <<[kind |-> "old"]>>]

-----------------------------------------------------------------------------
(* md_from_csv as a state machine *)

NoFrame == [columns |-> {}, rows |-> <<>>]

MdIdle ==
    /\ source = Unreadable /\ dest = Absent /\ pc = "idle" /\ df = NoFrame
    /\ categories = <<>> /\ ci = 0 /\ category_df = <<>> /\ sorted_df = <<>>
    /\ ri = 0 /\ err = "none"

Fail(e) == pc' = "failed" /\ err' = e

\* line 60: pd.read_csv(csv_path, ...)
ReadCsv ==
    /\ pc = "read"
    /\ IF source.readable
       THEN /\ df' = [columns |-> source.columns, rows |-> source.rows]
            /\ pc' = "categories"
            /\ err' = err
       ELSE /\ Fail("FileNotFoundError")
            /\ df' = df
    /\ UNCHANGED <<authors, npc, nres, source, dest, categories, ci, category_df,
                   sorted_df, ri>>

\* line 63: categories = sorted(df["Category"].unique())
ComputeCategories ==
    /\ pc = "categories"
    /\ IF "Category" \in df.columns
       THEN /\ categories' = SortedCategories(df.rows)
            /\ pc' = "open"
            /\ err' = err
       ELSE /\ Fail("KeyError")
            /\ categories' = categories
    /\ UNCHANGED <<authors, npc, nres, source, dest, df, ci, category_df, sorted_df, ri>>

\* line 65: open(md_path, mode="w") creates or truncates the file
OpenDest ==
    /\ pc = "open"
    /\ dest' = [exists |-> TRUE, lines |-> <<>>]
    /\ ci' = 1
    /\ pc' = "loop"
    /\ UNCHANGED <<authors, npc, nres, source, df, categories, category_df,
                   sorted_df, ri, err>>

\* lines 66-67: next category, its heading
WriteHeading ==
    /\ pc = "loop"
    /\ ci <= Len(categories)
    /\ dest' = [dest EXCEPT !.lines = Append(@, HeadingLine(categories[ci]))]
    /\ pc' = "last_names"
    /\ UNCHANGED <<authors, npc, nres, source, df, categories, ci, category_df,
                   sorted_df, ri, err>>

\* lines 70-73: filter to the category and apply get_last_names to "Author(s)"
ApplyLastNames ==
    /\ pc = "last_names"
    /\ LET rows == CategoryRows(df.rows, categories[ci])
       IN  IF "Author(s)" \notin df.columns
           THEN Fail("KeyError") /\ category_df' = category_df
           ELSE LET res == [i \in 1..Len(rows) |-> get_last_names(rows[i].row["Author(s)"])]
                    raised == {i \in 1..Len(rows) : res[i].kind = "raise"}
                IN  IF raised # {}
                    THEN Fail(res[Min(raised)].error) /\ category_df' = category_df
                    ELSE /\ category_df' =
                               [i \in 1..Len(rows) |->
                                   [idx |-> rows[i].idx, row |-> rows[i].row,
                                    last_names |-> res[i].value]]
                         /\ pc' = "sort"
                         /\ err' = err
    /\ UNCHANGED <<authors, npc, nres, source, dest, df, categories, ci, sorted_df, ri>>

\* line 76: sort_values(by=["Last Names", "Title"])
SortCategory ==
    /\ pc = "sort"
    /\ IF "Title" \in df.columns
       THEN /\ sorted_df' = SortValues(category_df)
            /\ pc' = "header"
            /\ err' = err
       ELSE /\ Fail("KeyError")
            /\ sorted_df' = sorted_df
    /\ UNCHANGED <<authors, npc, nres, source, dest, df, categories, ci, category_df, ri>>

\* lines 78-79: the table header and the separator row
WriteTableHeader ==
    /\ pc = "header"
    /\ dest' = [dest EXCEPT !.lines = @ \o <<HeaderLine, SeparatorLine>>]
    /\ ri' = 1
    /\ pc' = "rows"
    /\ UNCHANGED <<authors, npc, nres, source, df, categories, ci, category_df,
                   sorted_df, err>>

\* lines 81-94: one iteration of the loop over sorted_df
WriteRow ==
    /\ pc = "rows"
    /\ ri <= Len(sorted_df)
    /\ LET r == sorted_df[ri]
       IN  IF {"ISBN-10", "ISBN-13"} \subseteq df.columns
           THEN /\ dest' = [dest EXCEPT !.lines =
                               Append(@, RowLine(r.idx, r.last_names, r.row["Title"],
                                                 IsbnColumn(r.row["ISBN-10"],
                                                            r.row["ISBN-13"])))]
                /\ ri' = ri + 1
                /\ UNCHANGED <<pc, err>>
           ELSE /\ Fail("KeyError")
                /\ UNCHANGED <<dest, ri>>
    /\ UNCHANGED <<authors, npc, nres, source, df, categories, ci, category_df, sorted_df>>

\* line 96: the blank line that ends a table
WriteBlank ==
    /\ pc = "rows"
    /\ ri > Len(sorted_df)
    /\ dest' = [dest EXCEPT !.lines = Append(@, BlankLine)]
    /\ ci' = ci + 1
    /\ pc' = "loop"
    /\ UNCHANGED <<authors, npc, nres, source, df, categories, category_df,
                   sorted_df, ri, err>>

\* end of the with block after the last category: the function returns
CloseDest ==
    /\ pc = "loop"
    /\ ci > Len(categories)
    /\ pc' = "done"
    /\ UNCHANGED <<authors, npc, nres, source, dest, df, categories, ci, category_df,
                   sorted_df, ri, err>>

-----------------------------------------------------------------------------
(* Specifications *)

Init ==
    /\ NamesIdle
    /\ source \in Sources
    /\ dest \in {Absent, OldFile}
    /\ pc = "read"
    /\ df = NoFrame
    /\ categories = <<>> /\ ci = 0 /\ category_df = <<>> /\ sorted_df = <<>>
    /\ ri = 0 /\ err = "none"

Next ==
    \/ ReadCsv
    \/ ComputeCategories
    \/ OpenDest
    \/ WriteHeading
    \/ ApplyLastNames
    \/ SortCategory
    \/ WriteTableHeader
    \/ WriteRow
    \/ WriteBlank
    \/ CloseDest

Spec == Init /\ [][Next]_vars

InitNames ==
    /\ authors \in AuthorFields
    /\ npc = "ready"
    /\ nres = NoResult
    /\ MdIdle

NextNames == CallGetLastNames

SpecNames == InitNames /\ [][NextNames]_vars

-----------------------------------------------------------------------------
(* Vocabulary of the properties *)

\* the written lines, the data rows among them, the headings among them
Lines == dest.lines
RowIdxs == {k \in 1..Len(Lines) : Lines[k].kind = "row"}
HeadingIdxs == {k \in 1..Len(Lines) : Lines[k].kind = "heading"}
\* the heading line of the table that line k belongs to
TableOf(k) == Max({h \in HeadingIdxs : h < k})
\* the texts of the headings, in file order
Headings ==
    LET hs == Select(Lines, HeadingIdxs) IN [i \in 1..Len(hs) |-> hs[i].text]
\* the input record a data row was rendered from
RecordOf(k) == df.rows[Lines[k].idx]

Sentinels == {PRE_ISBN, NO_ISBN, LCCN}
Terminated == pc \in {"done", "failed"}

\* the whitespace-delimited tokens of a string, read from its end
NonSpace(s) == {i \in 1..Len(s) : ~IsSpace(s[i])}
FinalTokenStart(s) ==
    Min({b \in 1..Max(NonSpace(s)) : \A j \in b..Max(NonSpace(s)) : ~IsSpace(s[j])})
FinalToken(s) == SubSeq(s, FinalTokenStart(s), Max(NonSpace(s)))
BeforeFinalToken(s) == SubSeq(s, 1, FinalTokenStart(s) - 1)
HasTwoTokens(s) == NonSpace(s) # {} /\ NonSpace(BeforeFinalToken(s)) # {}
SecondToLastToken(s) == FinalToken(BeforeFinalToken(s))

\* the trimmed non-empty author substrings of an author field
Substrings(a) ==
    LET al == AuthorList(a) IN Select(al, {i \in 1..Len(al) : al[i] # <<>>})

\* n names shown as one string: "X", or "X, Y & Z"
JoinNames(names) ==
    IF Len(names) = 1 THEN names[1]
    ELSE Join(COMMA_SPACE, SubSeq(names, 1, Len(names) - 1))
             \o AMPERSAND \o names[Len(names)]

-----------------------------------------------------------------------------
(* C1 *)

\* C1 as stated: a data row whose ISBN-10 field is none of "Pre-ISBN",
\* "No ISBN", "LCCN" shows the ISBN-10 field value in its ISBN column.
C1_IsbnColumnIsIsbn10 ==
    \A k \in RowIdxs :
        RecordOf(k)["ISBN-10"] \notin Sentinels
            => Lines[k].isbn = RecordOf(k)["ISBN-10"]

\* C1 amended: a data row whose ISBN-10 field is none of "Pre-ISBN", "No ISBN",
\* "LCCN" shows the ISBN-13 field value, unchanged, in its ISBN column.
C1_IsbnColumnIsIsbn13 ==
    \A k \in RowIdxs :
        RecordOf(k)["ISBN-10"] \notin Sentinels
            => Lines[k].isbn = RecordOf(k)["ISBN-13"]

C1_Witness ==
    /\ pc = "done"
    /\ \E k \in RowIdxs :
        /\ RecordOf(k)["ISBN-10"] \notin Sentinels
        /\ RecordOf(k)["ISBN-10"] # RecordOf(k)["ISBN-13"]

-----------------------------------------------------------------------------
(* C2 *)

\* C2: when md_from_csv has failed, the destination file is untouched: it is
\* still absent or still holds its content from before the call.
C2_NoPartialOutput == pc = "failed" => dest \in {Absent, OldFile}

-----------------------------------------------------------------------------
(* C3 *)

\* C3: get_last_names on an author field that yields no name fails with
\* EmptyAuthorFieldError.
C3_EmptyAuthorFieldError ==
    (npc = "called" /\ Substrings(authors) = <<>>)
        => nres = Raise("EmptyAuthorFieldError")

-----------------------------------------------------------------------------
(* C4 *)

\* C4: a run on a readable table that lacks a required column ends in
\* failure with MissingColumnError, whatever the rows are.
C4_MissingColumnError ==
    (Terminated /\ source.readable /\ ~(RequiredColumns \subseteq source.columns))
        => (pc = "failed" /\ err = "MissingColumnError")

-----------------------------------------------------------------------------
(* C5 *)

-----------------------------------------------------------------------------
(* C6 *)

-----------------------------------------------------------------------------
(* C7 *)

-----------------------------------------------------------------------------
(* C8 *)

\* the name C8 and C9 expect of one author substring
ExpectedName(sub) ==
    IF Contains(sub, ET_AL) THEN sub
    ELSE IF FinalToken(sub) = JR /\ HasTwoTokens(sub) THEN SecondToLastToken(sub)
    ELSE FinalToken(sub)

\* C8: an author field with n >= 1 trimmed non-empty author substrings gives
\* n names in input order: the name alone if n = 1, else the first n-1 joined
\* by ", " then " & " and the last.
C8_NamesJoined ==
    (npc = "called" /\ Substrings(authors) # <<>>) =>
        nres = Return(JoinNames([i \in 1..Len(Substrings(authors)) |->
                                    ExpectedName(Substrings(authors)[i])]))

-----------------------------------------------------------------------------
(* C9 *)

\* C9: when every author substring of the field is a single token without
\* whitespace, the call returns; a field that is one such token is returned
\* as it is.
C9_SingleTokenAsIs ==
    (/\ npc = "called"
     /\ Substrings(authors) # <<>>
     /\ \A i \in 1..Len(Substrings(authors)) :
            NonSpace(Substrings(authors)[i]) = 1..Len(Substrings(authors)[i]))
        => /\ nres.kind = "return"
           /\ NonSpace(authors) = 1..Len(authors) /\ ~Contains(authors, COMMA)
                 => nres = Return(authors)

-----------------------------------------------------------------------------
(* C10 *)

\* C10: when every author substring either contains "et al." or has at least
\* two tokens, the name of a substring with "et al." is the substring
\* verbatim, and of any other the final token, unless that token is exactly
\* "Jr.", and then the second-to-last token.
C10_LastNameJr ==
    (/\ npc = "called"
     /\ Substrings(authors) # <<>>
     /\ \A i \in 1..Len(Substrings(authors)) :
            \/ Contains(Substrings(authors)[i], ET_AL)
            \/ HasTwoTokens(Substrings(authors)[i]))
        => nres = Return(JoinNames(
                     [i \in 1..Len(Substrings(authors)) |->
                        LET sub == Substrings(authors)[i]
                        IN  IF Contains(sub, ET_AL) THEN sub
                            ELSE IF FinalToken(sub) = JR THEN SecondToLastToken(sub)
                            ELSE FinalToken(sub)]))

C10_Witness ==
    /\ npc = "called"
    /\ Len(Substrings(authors)) = 1
    /\ ~Contains(authors, ET_AL)
    /\ HasTwoTokens(Substrings(authors)[1])
    /\ FinalToken(Substrings(authors)[1]) = JR
    /\ nres = Return(SecondToLastToken(Substrings(authors)[1]))

====
